---- MODULE Spec2Model ----
(***************************************************************************)
(* Verification model of neurobeer/tractography/cluster.py: spectral       *)
(* clustering of fibers (training, spectralClustering) and its extension   *)
(* to new fibers from a stored eigenbasis (spectralPriorCluster).          *)
(*                                                                         *)
(* Numbers.  Similarities are held in fixed point, SimScale standing for   *)
(* 1.0; weights are held in units of 1/WUnit; normalised distances are     *)
(* exact fractions <<num, den>> in lowest terms.  Python indices are       *)
(* 0-based and are kept 0-based wherever they are data (labels, rejected   *)
(* indices); TLA+ sequences are 1-based, so position p of an array is      *)
(* element p+1 of the sequence that models it.                             *)
(***************************************************************************)
EXTENDS Integers, Sequences, FiniteSets, TLC

VARIABLES
    pc,               \* the statement the run is at
    outcome,          \* "none" while running, "ok", or the error that ended it
    fiberTree,        \* fiberData: the fibers to cluster
    priorTree,        \* priorData: the previously clustered fibers (extension)
    scalarTypeList,   \* names of the scalar channels used
    scalarWeightList, \* weights, in units of 1/WUnit
    saveAllSimilarity,\* flag: persist every similarity matrix
    saveWSimilarity,  \* flag: persist the affinity matrix the run clusters
    no_of_jobs,       \* number of workers the row tasks are spread over
    k_clusters,       \* requested (training) or loaded (extension) cluster count
    eig,              \* the eigenbasis loaded by the extension
    W,                \* the affinity matrix the run holds
    saved,            \* names of the matrices persisted by misc.saveMatrix
    rowFiber,         \* for each row of the working set, the fiber it came from
    rejIdx,           \* indices of the rejected fibers
    emvec,            \* embedding rows handed to k-means / vq
    kmCentroids,      \* centroids as returned by kmeans2 / loaded from the prior
    kmClusterIdx,     \* labels as returned by kmeans2 / vq
    dist,             \* distance of each fiber to its centroid (vq)
    centroids,        \* centroids the run returns
    clusterIdx,       \* labels the run returns
    distances,        \* the normalised distance matrices built so far, in order
    similarities,     \* the similarity matrices built so far, in order
    tempRows,         \* temp: the results of the row tasks, by task
    rawDistances,     \* the distance matrix as assembled, before normalisation
    printed,          \* the messages printed, in order
    colour,       \* the colour matrix of the clusters
    degMat,           \* D: the degree matrix of training
    Lap,              \* L = D - W: the unnormalised Laplacian of training
    savedEig,         \* what misc.saveEig has written
    weighted,         \* the matrix saved under the name 'Weighted'
    clusterInfo,      \* what addClusterInfo has attached to fiberData
    outScalars,       \* values appended to the output, one array per scalar channel
    outPoints         \* number of points of the output polydata

\* the arguments of a run: no statement assigns them
inputs == <<fiberTree, priorTree, scalarTypeList, scalarWeightList,
            saveAllSimilarity, saveWSimilarity, no_of_jobs, k_clusters, eig>>

\* what the affinity builders leave behind
built == <<W, saved, distances, similarities>>

\* what outlier rejection leaves behind
filtered == <<rowFiber, rejIdx>>

\* what embedding and k-means / vq leave behind
clustered == <<emvec, kmCentroids, kmClusterIdx, dist>>

\* what the run returns
returned == <<centroids, clusterIdx>>

\* what the row tasks of a distance builder leave behind
rows == <<tempRows, rawDistances>>

\* what the run prints, and the colours it derives
report == <<printed, colour>>

\* what a run leaves behind besides its results
effects == <<degMat, Lap, savedEig, weighted, clusterInfo, outScalars, outPoints>>

vars == <<pc, outcome, inputs, built, filtered, clustered, returned, rows, report, effects>>

----------------------------------------------------------------------------
(* Bounds of the model.                                                    *)

\* most clusters asked of k-means
MaxK == 3
\* most embedding rows handed to k-means when _sortLabel is studied alone
MaxRows == 4
\* largest point coordinate of a fiber in the geometry-only stores
MaxCoord == 2
\* most fibers in a geometry-only store
MaxFibers == 3
\* most fibers in a store with scalar channels
MaxAffFibers == 2
\* most prior fibers the extension compares against
MaxPriorFibers == 1
\* most fibers in a run followed through outlier rejection
MaxOutN == 11
\* most fibers of such a run that differ from the rest
MaxOdd == 2
\* most fibers in a run followed to its returned labels
MaxTailN == 6
\* most fibers in a store whose row tasks are followed one by one
MaxRowN == 3
\* most workers the row tasks are spread over
MaxJobs == 2
\* most fibers in a run followed to the arrays of its output polydata
MaxVtkN == 6
\* most rows of a matrix for which every order of the pairs eigh may return
\* is followed; for a larger one eigh returns them ascending, as documented
MaxPermN == 4
\* most embedding rows handed to k-means by the earlier revision
MaxEarlierN == 5

----------------------------------------------------------------------------
(* Arithmetic helpers.                                                     *)

Abs(x) == IF x < 0 THEN -x ELSE x

Min2(a, b) == IF a <= b THEN a ELSE b

RECURSIVE SumSeq(_)
SumSeq(s) == IF s = <<>> THEN 0 ELSE Head(s) + SumSeq(Tail(s))

RECURSIVE Gcd(_, _)
Gcd(a, b) == IF b = 0 THEN a ELSE Gcd(b, a % b)

\* the fraction n/d (d > 0, n >= 0) in lowest terms
Frac(n, d) == LET g == Gcd(n, d) IN <<n \div g, d \div g>>

Range(s) == {s[i] : i \in DOMAIN s}

\* range(a, b) of Python, as a sequence
PyRange(a, b) == [i \in 1..(IF b > a THEN b - a ELSE 0) |-> a + i - 1]

\* all sequences over S of length lo..hi
SeqsOf(S, lo, hi) == UNION {[1..n -> S] : n \in lo..hi}

----------------------------------------------------------------------------
(* numpy helpers used by cluster.py.                                       *)

\* np.where(cond)[0]: the 0-based positions at which cond is true, ascending
RECURSIVE NpWhereFrom(_, _)
NpWhereFrom(cond, p) ==
    IF p > Len(cond) THEN <<>>
    ELSE (IF cond[p] THEN <<p - 1>> ELSE <<>>) \o NpWhereFrom(cond, p + 1)

\* the positions counted from 1 instead of 0
NpWhereOneBased(cond) ==
    LET w == NpWhereFrom(cond, 1) IN [i \in DOMAIN w |-> w[i] + 1]

NpWhere(cond) == NpWhereFrom(cond, 1)

\* np.delete(a, idx): a without the elements at the 0-based positions idx
RECURSIVE NpDeleteFrom(_, _, _)
NpDeleteFrom(a, idx, p) ==
    IF p > Len(a) THEN <<>>
    ELSE (IF (p - 1) \in Range(idx) THEN <<>> ELSE <<a[p]>>)
         \o NpDeleteFrom(a, idx, p + 1)

\* idx read as positions counted from 1 instead of 0
NpDeleteOneBased(a, idx) == NpDeleteFrom(a, [i \in DOMAIN idx |-> idx[i] - 1], 1)

NpDelete(a, idx) == NpDeleteFrom(a, idx, 1)

\* np.unique(a): the distinct values of a, ascending
RECURSIVE SortedSeqOf(_)
SortedSeqOf(S) ==
    IF S = {} THEN <<>>
    ELSE LET m == CHOOSE x \in S : \A y \in S : x <= y
         IN <<m>> \o SortedSeqOf(S \ {m})

NpUnique(a) == SortedSeqOf(Range(a))

\* the counts of np.unique(a, return_counts=True)
CountOf(a, v) == Cardinality({i \in DOMAIN a : a[i] = v})

NpUniqueCounts(a) == LET u == NpUnique(a) IN [i \in DOMAIN u |-> CountOf(a, u[i])]

\* np.argsort(-counts): every order numpy may return.  The default sort kind
\* is not stable, so equal counts may come out in either order.  The result
\* holds 0-based positions of counts.
ArgsortDesc(counts) ==
    {p \in [1..Len(counts) -> 0..(Len(counts) - 1)] :
        /\ \A i, j \in DOMAIN p : i # j => p[i] # p[j]
        /\ \A i, j \in DOMAIN p : i < j => counts[p[i] + 1] >= counts[p[j] + 1]}

----------------------------------------------------------------------------
(* Fibers and fiber stores.                                                *)
(* A fiber is [pts, sc]: pts its sampled points in order, sc its scalar    *)
(* channels by name.  The model's fibers lie on one axis, so a point is    *)
(* one coordinate and the Euclidean norm of a difference is its absolute   *)
(* value; they are sampled at two points.                                  *)

Fiber(pts, sc) == [pts |-> pts, sc |-> sc]

NoScalars == [c \in {} |-> <<>>]

\* geometry-only fibers: every pair of points with coordinates 0..MaxCoord
GeomFibers == {Fiber(<<a, b>>, NoScalars) : a, b \in 0..MaxCoord}

GeomStores == SeqsOf(GeomFibers, 1, MaxFibers)

\* the scalar channels the stores carry, in the order they are listed
ChannelOrder == <<"FA", "T1">>

ScalarNames == Range(ChannelOrder)

Scalars(fa, t1) == [c \in ScalarNames |-> IF c = "FA" THEN fa ELSE t1]

\* a reference fiber, and one that differs from it in geometry only
PriorFibers == {Fiber(<<0, 0>>, Scalars(<<0, 0>>, <<1, 1>>)),
                Fiber(<<1, 2>>, Scalars(<<0, 0>>, <<1, 1>>))}

\* fibers with scalar channels: the two above, and one that differs from the
\* reference fiber in FA only
AffFibers == PriorFibers \cup {Fiber(<<0, 0>>, Scalars(<<0, 1>>, <<1, 1>>))}

AffStores == SeqsOf(AffFibers, 1, MaxAffFibers)

PriorStores == SeqsOf(PriorFibers, 1, MaxPriorFibers)

\* scalar type lists: none, the first channel, or both
TypeLists == {SubSeq(ChannelOrder, 1, n) : n \in 0..Len(ChannelOrder)}

\* a weight of 1.0, in weight units
WUnit == 4

\* weights 0.25, 0.5 and 1.0
WeightVals == {1, 2, WUnit}

\* weight lists: up to one weight for geometry and one per channel
WeightLists == SeqsOf(WeightVals, 0, Len(ChannelOrder) + 1)

----------------------------------------------------------------------------
(* distance.py (not among the sources): the distances and the kernel.      *)

\* sum over the points of |a[p] - b[p]|
ForwardSum(a, b) == SumSeq([p \in DOMAIN a |-> Abs(a[p] - b[p])])

\* sum over the points of |a[p] - b[P-1-p]|
ReverseSum(a, b) == SumSeq([p \in DOMAIN a |-> Abs(a[p] - b[Len(b) + 1 - p])])

\* the forward comparison alone
PairDistanceForward(a, b) == ForwardSum(a, b)

\* min(d_forward, d_reverse), times the number of points
PairDistance(a, b) == Min2(ForwardSum(a, b), ReverseSum(a, b))

\* distance.fiberDistance(fiber, fibers): one distance per fiber of the list
FiberDistance(f, fs) == [k \in DOMAIN fs |-> PairDistance(f.pts, fs[k].pts)]

\* distance.scalarDistance(scalar, scalars)
ScalarDistance(f, fs, type) ==
    [k \in DOMAIN fs |-> PairDistance(f.sc[type], fs[k].sc[type])]

\* 1.0 in the fixed point of similarities
SimScale == 100

\* 1/sigma^2 for the kernel width the runs are given (sigma = 0.5)
SigmaInvSq == 4

\* exp(-x) at x = 0, 1/4, 2/4, ..., in fixed point, to the nearest multiple
\* of WUnit (so that a weighted sum of similarities is exact)
ExpNegTable == <<SimScale, 76, 60, 48, 36, 28, 24, 16, 12, 12, 8, 8, 4, 4, 4, 4>>

\* exp(-d^2/sigma^2) for the fraction d = <<n, m>>
GausKernel(d) ==
    LET q == (4 * d[1] * d[1] * SigmaInvSq) \div (d[2] * d[2])
    IN IF q < Len(ExpNegTable) THEN ExpNegTable[q + 1] ELSE 0

\* distance.gausKernel_similarity(distances, sigmasq), elementwise
GausKernelSimilarity(D) == [i \in DOMAIN D |-> [j \in DOMAIN D[i] |-> GausKernel(D[i][j])]]

----------------------------------------------------------------------------
(* sklearn.preprocessing.MinMaxScaler().fit_transform: per column,         *)
(* (x - min) / (max - min), with a zero range replaced by 1.               *)

ColMin(X, j) == CHOOSE v \in {X[i][j] : i \in DOMAIN X} : \A i \in DOMAIN X : v <= X[i][j]

ColMax(X, j) == CHOOSE v \in {X[i][j] : i \in DOMAIN X} : \A i \in DOMAIN X : v >= X[i][j]

ColScale(X, j) == IF ColMax(X, j) = ColMin(X, j) THEN 1 ELSE ColMax(X, j) - ColMin(X, j)

\* normalisation by the one largest entry of the matrix instead of per column
MinMaxScaleGlobal(X) ==
    LET top == CHOOSE v \in {X[i][j] : i \in DOMAIN X, j \in DOMAIN X[1]} :
                   \A i \in DOMAIN X, j \in DOMAIN X[1] : v >= X[i][j]
    IN [i \in DOMAIN X |-> [j \in DOMAIN X[i] |->
           Frac(X[i][j], IF top = 0 THEN 1 ELSE top)]]

MinMaxScale(X) ==
    [i \in DOMAIN X |-> [j \in DOMAIN X[i] |->
        Frac(X[i][j] - ColMin(X, j), ColScale(X, j))]]

----------------------------------------------------------------------------
(* The diagonal checks (cluster.py 343, 370, 410, 439, 702).               *)

\* np.diag(m)
NpDiag(M) == [i \in DOMAIN M |-> M[i][i]]

\* a Python bool compared with a number counts as 1 or 0
BoolAsNum(b) == IF b THEN 1 ELSE 0

\* np.diag(distances).all(): no diagonal entry is zero
DistDiagAll(D) == \A i \in DOMAIN D : D[i][i][1] # 0

\* `np.diag(distances).all() != 0.0`: whether the distance check exits
DistDiagExits(D) == BoolAsNum(DistDiagAll(D)) # 0

\* np.diag(similarities).all(): no diagonal entry is zero
SimDiagAll(S) == \A i \in DOMAIN S : S[i][i] # 0

\* the similarity check written with the distance check's comparison
SimDiagExitsAsDistance(S) == BoolAsNum(SimDiagAll(S)) # 0

\* `np.diag(similarities).all() != 1.0`: whether the similarity check exits
SimDiagExits(S) == BoolAsNum(SimDiagAll(S)) # 1

----------------------------------------------------------------------------
(* The matrix builders.  Each returns [err, val]: err is "none" and val    *)
(* the matrix, or err names what ended the run.                            *)

Ok(v) == [err |-> "none", val |-> v]

Err(e) == [err |-> e, val |-> <<>>]

\* fiberTree.getFibers(range(a, b))
GetFibers(tree, a, b) == [k \in 1..(IF b > a THEN b - a ELSE 0) |-> tree[a + k]]

\* the row tasks of _pairwiseDistance_matrix: task fidx holds the distances of
\* fiber fidx to the fibers fidx..N-1
PairwiseRows(tree) ==
    [i \in DOMAIN tree |-> FiberDistance(tree[i], GetFibers(tree, i - 1, Len(tree)))]

\* the assembly loop of _pairwiseDistance_matrix (331-337): entry (i,j) and
\* (j,i), i <= j, are temp[i][j - i]
AssembleSquare(temp) ==
    [i \in DOMAIN temp |-> [j \in DOMAIN temp |->
        IF i <= j THEN temp[i][j - i + 1] ELSE temp[j][i - j + 1]]]

\* _pairwiseDistance_matrix (312-347)
PairwiseDistanceMatrix(tree) ==
    LET d == MinMaxScale(AssembleSquare(PairwiseRows(tree)))
    IN IF DistDiagExits(d) THEN Err("InvariantViolation") ELSE Ok(d)

\* _pairwiseSimilarity_matrix (349-374), given the distances
PairwiseSimilarityMatrix(d) ==
    LET sim == GausKernelSimilarity(d)
    IN IF SimDiagExits(sim) THEN Err("InvariantViolation") ELSE Ok(sim)

\* the row tasks of _pairwiseQDistance_matrix
PairwiseQRows(tree, type) ==
    [i \in DOMAIN tree |-> ScalarDistance(tree[i], GetFibers(tree, i - 1, Len(tree)), type)]

\* the assembly loop of _pairwiseQDistance_matrix (398-404) reads temp[i][j],
\* not temp[i][idx]: row task i holds N-i entries, so the read fails as soon
\* as j >= N - i
QAssembleFails(temp) ==
    \E i, j \in DOMAIN temp : i <= j /\ j > Len(temp[i])

QAssembleSquare(temp) ==
    [i \in DOMAIN temp |-> [j \in DOMAIN temp |->
        IF i <= j THEN temp[i][j] ELSE temp[j][i]]]

\* _pairwiseQDistance_matrix (376-414)
PairwiseQDistanceMatrix(tree, type) ==
    LET temp == PairwiseQRows(tree, type)
    IN IF QAssembleFails(temp) THEN Err("IndexError")
       ELSE LET d == MinMaxScale(QAssembleSquare(temp))
            IN IF DistDiagExits(d) THEN Err("InvariantViolation") ELSE Ok(d)

\* _priorDistance_matrix (445-470): every new fiber against every prior fiber
PriorDistanceMatrix(tree, prior) ==
    MinMaxScale([i \in DOMAIN tree |-> FiberDistance(tree[i], prior)])

\* _priorQDistance_matrix (496-524)
PriorQDistanceMatrix(tree, prior, type) ==
    MinMaxScale([i \in DOMAIN tree |-> ScalarDistance(tree[i], prior, type)])

----------------------------------------------------------------------------
(* _pairwiseWeightedSimilarity (631-706) and _priorWeightedSimilarity      *)
(* (708-783).  A build is [err, W, saved, dists, sims]: the error that     *)
(* ended it ("none" when it returned), the matrix returned, the names      *)
(* persisted, and the distance and similarity matrices computed, in order. *)

Build(e, w, sv, ds, ss) == [err |-> e, W |-> w, saved |-> sv, dists |-> ds, sims |-> ss]

\* similarity * weight
Scaled(S, w) == [i \in DOMAIN S |-> [j \in DOMAIN S[i] |-> (S[i][j] * w) \div WUnit]]

\* wSimilarity += similarity
MatAdd(A, B) == [i \in DOMAIN A |-> [j \in DOMAIN A[i] |-> A[i][j] + B[i][j]]]

\* the name under which the geometry matrix of the weighted branch is saved:
\* matrixType[:-2] + 'geometry' (682, 763)
GeometryNameOf(type) == <<type, "geometry">>

\* the name under which the geometry-only matrix is saved (666, 747)
GeometryName == <<"", "Geometry">>

\* the name under which the similarity of a channel is saved (695-696)
ChannelNameOf(type) == <<type, "">>

\* one similarity matrix, square: distances, check, kernel, check
SquareSim(d) == IF d.err # "none" THEN d ELSE PairwiseSimilarityMatrix(d.val)

\* the loop body of 687-698 from channel i on, b the build so far
RECURSIVE TrainChannels(_, _, _, _, _, _)
TrainChannels(tree, types, weights, saveAll, i, b) ==
    IF i > Len(types) THEN b
    ELSE LET d == PairwiseQDistanceMatrix(tree, types[i])
             sim == SquareSim(d)
             ds == IF d.err = "none" THEN Append(b.dists, d.val) ELSE b.dists
             ss == IF sim.err = "none" THEN Append(b.sims, sim.val) ELSE b.sims
             sv == IF saveAll THEN b.saved \cup {ChannelNameOf(types[i])} ELSE b.saved
         IN IF sim.err # "none" THEN Build(sim.err, <<>>, b.saved, ds, ss)
            ELSE IF i + 1 > Len(weights) THEN Build("IndexError", <<>>, sv, ds, ss)
            ELSE TrainChannels(tree, types, weights, saveAll, i + 1,
                     Build("none", MatAdd(b.W, Scaled(sim.val, weights[i + 1])), sv, ds, ss))

\* the final check of 702-704
TrainFinalCheck(b) ==
    IF b.err = "none" /\ SimDiagExits(b.W)
    THEN Build("InvariantViolation", <<>>, b.saved, b.dists, b.sims)
    ELSE b

\* the geometry similarity of the training builder, as a build
TrainGeometry(tree) ==
    LET d == PairwiseDistanceMatrix(tree)
        sim == SquareSim(d)
        ds == IF d.err = "none" THEN <<d.val>> ELSE <<>>
        ss == IF sim.err = "none" THEN <<sim.val>> ELSE <<>>
    IN Build(sim.err, IF sim.err = "none" THEN sim.val ELSE <<>>, {}, ds, ss)

\* the branch of 659 with the short cut for a leading weight of 1 left out
GeometryOnlyStrict(types, weights) == weights = <<>> /\ types = <<>>

\* the condition of 659 / 737: no weights and no types, or a leading weight of 1
GeometryOnly(types, weights) ==
    (weights = <<>> /\ types = <<>>) \/ weights[1] = WUnit

\* the conditions of 651-657 with the second test lost
WeightSpecMismatchFirstOnly(types, weights) == weights = <<>> /\ types # <<>>

\* the conditions of 651-657 / 729-735: exactly one of the two lists is empty
WeightSpecMismatch(types, weights) ==
    \/ weights = <<>> /\ types # <<>>
    \/ weights # <<>> /\ types = <<>>

\* the test of 670 / 751
WeightSumWrong(weights) == SumSeq(weights) # WUnit

\* the weighted branch with the weights paired with the channels one place
\* early (similarity * scalarWeightList[i])
RECURSIVE PriorChannelsShifted(_, _, _, _, _, _, _)
PriorChannelsShifted(tree, prior, types, weights, saveAll, i, b) ==
    IF i > Len(types) THEN b
    ELSE LET sim == GausKernelSimilarity(PriorQDistanceMatrix(tree, prior, types[i]))
         IN PriorChannelsShifted(tree, prior, types, weights, saveAll, i + 1,
                Build("none", MatAdd(b.W, Scaled(sim, weights[i])),
                      b.saved, b.dists, Append(b.sims, sim)))

\* the loop body of 768-779 from channel i on
RECURSIVE PriorChannels(_, _, _, _, _, _, _)
PriorChannels(tree, prior, types, weights, saveAll, i, b) ==
    IF i > Len(types) THEN b
    ELSE LET d == PriorQDistanceMatrix(tree, prior, types[i])
             sim == GausKernelSimilarity(d)
             ds == Append(b.dists, d)
             ss == Append(b.sims, sim)
             sv == IF saveAll THEN b.saved \cup {ChannelNameOf(types[i])} ELSE b.saved
         IN IF i + 1 > Len(weights) THEN Build("IndexError", <<>>, sv, ds, ss)
            ELSE PriorChannels(tree, prior, types, weights, saveAll, i + 1,
                     Build("none", MatAdd(b.W, Scaled(sim, weights[i + 1])), sv, ds, ss))

\* _pairwiseWeightedSimilarity
TrainAffinity(tree, types, weights, saveAll) ==
    IF WeightSpecMismatch(types, weights)
    THEN Build("WeightSpecError", <<>>, {}, <<>>, <<>>)
    ELSE IF GeometryOnly(types, weights)
    THEN LET g == TrainGeometry(tree)
         IN TrainFinalCheck(
                Build(g.err, g.W, IF g.err = "none" THEN {GeometryName} ELSE {},
                      g.dists, g.sims))
    ELSE IF WeightSumWrong(weights)
    THEN Build("WeightSumError", <<>>, {}, <<>>, <<>>)
    ELSE LET g == TrainGeometry(tree)
         IN IF g.err # "none" THEN g
            ELSE IF saveAll /\ types = <<>>
            THEN Build("IndexError", <<>>, {}, g.dists, g.sims)
            ELSE TrainFinalCheck(
                     TrainChannels(tree, types, weights, saveAll, 1,
                         Build("none", Scaled(g.W, weights[1]),
                               IF saveAll THEN {GeometryNameOf(types[1])} ELSE {},
                               g.dists, g.sims)))

\* _priorWeightedSimilarity
PriorAffinity(tree, prior, types, weights, saveAll) ==
    IF WeightSpecMismatch(types, weights)
    THEN Build("WeightSpecError", <<>>, {}, <<>>, <<>>)
    ELSE LET d == PriorDistanceMatrix(tree, prior)
             sim == GausKernelSimilarity(d)
         IN IF GeometryOnly(types, weights)
            THEN Build("none", sim, {GeometryName}, <<d>>, <<sim>>)
            ELSE IF WeightSumWrong(weights)
            THEN Build("WeightSumError", <<>>, {}, <<>>, <<>>)
            ELSE IF saveAll /\ types = <<>>
            THEN Build("IndexError", <<>>, {}, <<d>>, <<sim>>)
            ELSE PriorChannels(tree, prior, types, weights, saveAll, 1,
                     Build("none", Scaled(sim, weights[1]),
                           IF saveAll THEN {GeometryNameOf(types[1])} ELSE {},
                           <<d>>, <<sim>>))

\* spectralClustering step 1 (67-69)
PairwiseWeightedSimilarity ==
    /\ pc = "trainAffinity"
    /\ \E b \in {TrainAffinity(fiberTree, scalarTypeList, scalarWeightList,
                              saveAllSimilarity)} :
          /\ outcome' = b.err
          /\ pc' = IF b.err = "none" THEN "outlierSim" ELSE "failed"
          /\ W' = b.W
          /\ saved' = saved \cup b.saved
          /\ distances' = b.dists
          /\ similarities' = b.sims
    /\ UNCHANGED <<effects, rows, report, inputs, filtered, clustered, returned>>

\* spectralPriorCluster step 1 (199-201)
PriorWeightedSimilarity ==
    /\ pc = "priorAffinity"
    /\ \E b \in {PriorAffinity(fiberTree, priorTree, scalarTypeList, scalarWeightList,
                              saveAllSimilarity)} :
          /\ outcome' = b.err
          /\ pc' = IF b.err = "none" THEN "project" ELSE "failed"
          /\ W' = b.W
          /\ saved' = saved \cup b.saved
          /\ distances' = b.dists
          /\ similarities' = b.sims
    /\ UNCHANGED <<effects, rows, report, inputs, filtered, clustered, returned>>

\* what no statement has touched yet
Untouched ==
    /\ outcome = "none"
    /\ W = <<>>
    /\ saved = {}
    /\ rejIdx = <<>>
    /\ kmClusterIdx = <<>>
    /\ dist = <<>>
    /\ centroids = <<>>
    /\ clusterIdx = <<>>
    /\ distances = <<>>
    /\ similarities = <<>>
    /\ tempRows = <<>>
    /\ rawDistances = <<>>
    /\ printed = <<>>
    /\ colour = <<>>
    /\ degMat = <<>>
    /\ Lap = <<>>
    /\ savedEig = <<>>
    /\ weighted = <<>>
    /\ clusterInfo = <<>>
    /\ outScalars = <<>>
    /\ outPoints = 0
    /\ no_of_jobs = 1

\* a run of either path at its affinity step, with scalar channels at hand
InitAff ==
    /\ Untouched
    /\ fiberTree \in AffStores
    /\ scalarTypeList \in TypeLists
    /\ scalarWeightList \in WeightLists
    /\ saveAllSimilarity \in BOOLEAN
    /\ saveWSimilarity = FALSE
    /\ emvec = <<>>
    /\ kmCentroids = <<>>
    /\ k_clusters = 2
    /\ eig = <<>>
    /\ rowFiber = PyRange(0, Len(fiberTree))
    /\ \/ pc = "trainAffinity" /\ priorTree = <<>>
       \/ pc = "priorAffinity" /\ priorTree \in PriorStores

NextAff == PairwiseWeightedSimilarity \/ PriorWeightedSimilarity

SpecAff == InitAff /\ [][NextAff]_vars

\* a training run at its affinity step, geometry only
InitDist ==
    /\ Untouched
    /\ pc = "trainAffinity"
    /\ fiberTree \in GeomStores
    /\ priorTree = <<>>
    /\ scalarTypeList = <<>>
    /\ scalarWeightList = <<>>
    /\ saveAllSimilarity = FALSE
    /\ saveWSimilarity = FALSE
    /\ emvec = <<>>
    /\ kmCentroids = <<>>
    /\ k_clusters = 2
    /\ eig = <<>>
    /\ rowFiber = PyRange(0, Len(fiberTree))

SpecDist == InitDist /\ [][PairwiseWeightedSimilarity]_vars

----------------------------------------------------------------------------
(* _pairwiseDistance_matrix (312-347) task by task.  joblib's Parallel     *)
(* hands the tasks out in order to at most n_jobs workers, lets them end   *)
(* in any order, and returns their results as a list in task order.        *)

Pending == [st |-> "pending", val |-> <<>>]

Running == [st |-> "running", val |-> <<>>]

Done(row) == [st |-> "done", val |-> row]

\* the result of a task put where the next unfinished task's result belongs,
\* that task taking the place of the one that ended
StoreInCompletionOrder(results, fidx, row) ==
    LET first == CHOOSE q \in DOMAIN results :
                     /\ results[q].st # "done"
                     /\ \A o \in 1..(q - 1) : results[o].st = "done"
    IN IF first = fidx + 1
       THEN [results EXCEPT ![first] = Done(row)]
       ELSE [results EXCEPT ![first] = Done(row), ![fidx + 1] = results[first]]

\* the result of task fidx (counted from 0) put at position fidx of the list
StoreResult(results, fidx, row) == [results EXCEPT ![fidx + 1] = Done(row)]

\* a worker takes the next task of 325-328
StartRowTask ==
    /\ pc = "rowTasks"
    /\ Cardinality({q \in DOMAIN tempRows : tempRows[q].st = "running"}) < no_of_jobs
    /\ \E q \in DOMAIN tempRows :
          /\ tempRows[q].st = "pending"
          /\ \A o \in 1..(q - 1) : tempRows[o].st # "pending"
          /\ tempRows' = [tempRows EXCEPT ![q] = Running]
    /\ UNCHANGED <<effects, pc, outcome, inputs, built, filtered, clustered, returned,
                   rawDistances, report>>

\* a worker ends its task: distance.fiberDistance of fiber fidx against the
\* fibers fidx..N-1 (326-327)
FinishRowTask ==
    /\ pc = "rowTasks"
    /\ \E q \in DOMAIN tempRows :
          /\ tempRows[q].st = "running"
          /\ tempRows' = StoreResult(tempRows, q - 1,
                 FiberDistance(fiberTree[q], GetFibers(fiberTree, q - 1, Len(fiberTree))))
    /\ UNCHANGED <<effects, pc, outcome, inputs, built, filtered, clustered, returned,
                   rawDistances, report>>

\* the assembly loop (329-338), once Parallel has returned
AssembleRows ==
    /\ pc = "rowTasks"
    /\ \A q \in DOMAIN tempRows : tempRows[q].st = "done"
    /\ rawDistances' = AssembleSquare([q \in DOMAIN tempRows |-> tempRows[q].val])
    /\ tempRows' = <<>>
    /\ pc' = "normalise"
    /\ UNCHANGED <<effects, outcome, inputs, built, filtered, clustered, returned, report>>

\* normalisation and the diagonal check (340-347)
NormaliseDistances ==
    /\ pc = "normalise"
    /\ \E d \in {MinMaxScale(rawDistances)} :
          /\ distances' = <<d>>
          /\ outcome' = IF DistDiagExits(d) THEN "InvariantViolation" ELSE "none"
          /\ pc' = IF DistDiagExits(d) THEN "failed" ELSE "distancesBuilt"
    /\ UNCHANGED <<effects, inputs, W, saved, similarities, filtered, clustered, returned,
                   rows, report>>

\* the fibers of the stores whose tasks are followed
RowFibers ==
    {Fiber(<<0, 0>>, NoScalars), Fiber(<<0, 1>>, NoScalars),
     Fiber(<<1, 0>>, NoScalars), Fiber(<<0, 2>>, NoScalars)}

\* _pairwiseDistance_matrix entered, no task handed out yet
InitRows ==
    /\ outcome = "none"
    /\ pc = "rowTasks"
    /\ fiberTree \in SeqsOf(RowFibers, 1, MaxRowN)
    /\ priorTree = <<>>
    /\ scalarTypeList = <<>>
    /\ scalarWeightList = <<>>
    /\ saveAllSimilarity = FALSE
    /\ saveWSimilarity = FALSE
    /\ no_of_jobs \in 1..MaxJobs
    /\ k_clusters = 2
    /\ eig = <<>>
    /\ W = <<>>
    /\ saved = {}
    /\ distances = <<>>
    /\ similarities = <<>>
    /\ rowFiber = PyRange(0, Len(fiberTree))
    /\ rejIdx = <<>>
    /\ emvec = <<>>
    /\ kmCentroids = <<>>
    /\ kmClusterIdx = <<>>
    /\ dist = <<>>
    /\ centroids = <<>>
    /\ clusterIdx = <<>>
    /\ tempRows = [q \in DOMAIN fiberTree |-> Pending]
    /\ rawDistances = <<>>
    /\ printed = <<>>
    /\ colour = <<>>
    /\ degMat = <<>>
    /\ Lap = <<>>
    /\ savedEig = <<>>
    /\ weighted = <<>>
    /\ clusterInfo = <<>>
    /\ outScalars = <<>>
    /\ outPoints = 0

NextRows == StartRowTask \/ FinishRowTask \/ AssembleRows \/ NormaliseDistances

SpecRows == InitRows /\ [][NextRows]_vars

----------------------------------------------------------------------------
(* The diagonal checks on their own: a matrix handed to the check of       *)
(* 343-345 or to that of 370-372 / 702-704.                                *)

\* a matrix with the given diagonal and every other entry equal to off
WithDiagonal(diag, off) ==
    [i \in DOMAIN diag |-> [j \in DOMAIN diag |-> IF i = j THEN diag[i] ELSE off]]

\* normalised distance matrices with diagonal entries 0, 1/2 or 1
GuardDistances ==
    {WithDiagonal(dg, Frac(1, 2)) :
        dg \in SeqsOf({Frac(0, 1), Frac(1, 2), Frac(1, 1)}, 1, MaxFibers)}

\* similarity matrices with diagonal entries 0, 0.48 or 1
GuardSimilarities ==
    {WithDiagonal(dg, 48) : dg \in SeqsOf({0, 48, SimScale}, 1, MaxFibers)}

\* lines 343-345
CheckDistanceDiagonal ==
    /\ pc = "checkDistance"
    /\ outcome' = IF DistDiagExits(distances[1]) THEN "InvariantViolation" ELSE "none"
    /\ pc' = "checked"
    /\ UNCHANGED <<effects, rows, report, inputs, built, filtered, clustered, returned>>

\* lines 370-372, 702-704
CheckSimilarityDiagonal ==
    /\ pc = "checkSimilarity"
    /\ outcome' = IF SimDiagExits(similarities[1]) THEN "InvariantViolation" ELSE "none"
    /\ pc' = "checked"
    /\ UNCHANGED <<effects, rows, report, inputs, built, filtered, clustered, returned>>

InitGuard ==
    /\ outcome = "none"
    /\ fiberTree = <<>>
    /\ priorTree = <<>>
    /\ scalarTypeList = <<>>
    /\ scalarWeightList = <<>>
    /\ saveAllSimilarity = FALSE
    /\ saveWSimilarity = FALSE
    /\ no_of_jobs = 1
    /\ tempRows = <<>>
    /\ rawDistances = <<>>
    /\ printed = <<>>
    /\ colour = <<>>
    /\ degMat = <<>>
    /\ Lap = <<>>
    /\ savedEig = <<>>
    /\ weighted = <<>>
    /\ clusterInfo = <<>>
    /\ outScalars = <<>>
    /\ outPoints = 0
    /\ k_clusters = 2
    /\ eig = <<>>
    /\ W = <<>>
    /\ saved = {}
    /\ rowFiber = <<>>
    /\ rejIdx = <<>>
    /\ emvec = <<>>
    /\ kmCentroids = <<>>
    /\ kmClusterIdx = <<>>
    /\ dist = <<>>
    /\ centroids = <<>>
    /\ clusterIdx = <<>>
    /\ \/ /\ pc = "checkDistance"
          /\ \E d \in GuardDistances : distances = <<d>>
          /\ similarities = <<>>
       \/ /\ pc = "checkSimilarity"
          /\ distances = <<>>
          /\ \E m \in GuardSimilarities : similarities = <<m>>

NextGuard == CheckDistanceDiagonal \/ CheckSimilarityDiagonal

SpecGuard == InitGuard /\ [][NextGuard]_vars

----------------------------------------------------------------------------
(* _sortLabel (cluster.py 785-809).                                        *)

\* newIdx[0][0] of np.where(sortedClusters == i): the first position of
\* sortedClusters that holds i
FirstPosOf(sortedClusters, i) ==
    CHOOSE p \in 0..(Len(sortedClusters) - 1) :
        /\ sortedClusters[p + 1] = i
        /\ \A q \in 0..(p - 1) : sortedClusters[q + 1] # i

\* newClusters after the loop: only the labels i in range(len(sortedClusters))
\* are rewritten; every other label keeps the copy made before the loop
SortedLabels(cIdx, sortedClusters) ==
    [t \in DOMAIN cIdx |->
        IF cIdx[t] \in 0..(Len(sortedClusters) - 1)
        THEN FirstPosOf(sortedClusters, cIdx[t])
        ELSE cIdx[t]]

\* the same loop with the rank taken from the wrong side (the label found at
\* position i instead of the position of i)
SortedCentroidsSwapped(cents, sortedClusters) ==
    [r \in DOMAIN cents |->
        IF (r - 1) \in 0..(Len(sortedClusters) - 1)
        THEN cents[FirstPosOf(sortedClusters, r - 1) + 1]
        ELSE cents[r]]

\* newCentroids after the loop: rows i in range(len(sortedClusters)) are
\* rewritten with centroids[sortedClusters[i]]; the other rows keep the copy
SortedCentroids(cents, sortedClusters) ==
    [r \in DOMAIN cents |->
        IF (r - 1) \in 0..(Len(sortedClusters) - 1)
        THEN cents[sortedClusters[r] + 1]
        ELSE cents[r]]

----------------------------------------------------------------------------
(* The embedding (cluster.py 77-102).  The eigenvectors of the Laplacian   *)
(* are not computed: entry (t, c) of eigvec is stood for by the pair       *)
(* <<t, c>>, so that an embedding row tells which row and which columns    *)
(* of eigvec it holds.                                                     *)

\* one column fewer than clusters, whatever the number of rows
EmbeddingColumnsOneFewer(n, k) == PyRange(1, Min2(k, n))

\* the columns of eigvec taken for n rows and k clusters (95-102)
EmbeddingColumns(n, k) ==
    IF k > n THEN PyRange(1, n)
    ELSE IF k = n THEN PyRange(1, k)
    ELSE PyRange(1, k + 1)

\* the messages of 96-97 and 210-211
ManyClustersMsg == "Clustering with maximum number of available eigenvectors."

Embedding(n, k) ==
    LET cols == EmbeddingColumns(n, k)
    IN [t \in 1..n |-> [c \in DOMAIN cols |-> <<t - 1, cols[c]>>]]

----------------------------------------------------------------------------
(* k-means (scipy.cluster.vq.kmeans2, cluster.py 105-106).                 *)

\* The centroid rows kmeans2 may return for k clusters in w columns: each row
\* is stood for by one number, held in each of its columns, and rows of
\* different clusters stand for different numbers.
CentroidRows(k, w) ==
    {[i \in 1..k |-> [c \in 1..w |-> f[i]]] :
        f \in {g \in [1..k -> 0..(k - 1)] : \A i, j \in 1..k : i # j => g[i] # g[j]}}

\* The labelings kmeans2 may return for n rows and k clusters.  A cluster may
\* be empty (kmeans2 warns and goes on): with minit='points' two equal rows
\* drawn as initial centroids leave the later one without a row, and a later
\* update can empty a cluster when k >= 3.  The initial centroid 0 is a data
\* row and ties go to the lowest index, so with k <= 2 cluster 0 keeps a row.
Labelings(n, k) == {l \in [1..n -> 0..(k - 1)] : k <= 2 => 0 \in Range(l)}

\* How a call kmeans2(data, k, minit='points') may end.  scipy raises
\* ValueError for k < 1; what it does with data of no columns, and with more
\* clusters than rows, depends on the scipy and numpy at hand: it raises
\* ValueError or IndexError, or goes on.
KMeansEnds(data, k) ==
    IF k < 1 THEN {"ValueError"}
    ELSE {"none"}
         \cup (IF data[1] = <<>> THEN {"ValueError"} ELSE {})
         \cup (IF k > Len(data) THEN {"ValueError", "IndexError"} ELSE {})

KMeans2 ==
    /\ pc = "kmeans"
    /\ \E e \in KMeansEnds(emvec, k_clusters) :
          IF e = "none"
          THEN /\ \E c \in CentroidRows(k_clusters, Len(emvec[1])) :
                  \E l \in Labelings(Len(emvec), k_clusters) :
                     /\ kmCentroids' = c
                     /\ kmClusterIdx' = l
               /\ pc' = "sortLabel"
               /\ outcome' = outcome
          ELSE /\ outcome' = e
               /\ pc' = "failed"
               /\ UNCHANGED <<kmCentroids, kmClusterIdx>>
    /\ emvec' = emvec
    /\ dist' = dist
    /\ UNCHANGED <<effects, rows, report, inputs, built, filtered, returned>>

\* _sortLabel, and fiberData.addClusterInfo(clusterIdx, centroids) (107-108)
SortLabel ==
    /\ pc = "sortLabel"
    /\ \E sortedClusters \in ArgsortDesc(NpUniqueCounts(kmClusterIdx)) :
          /\ clusterIdx' = SortedLabels(kmClusterIdx, sortedClusters)
          /\ centroids' = SortedCentroids(kmCentroids, sortedClusters)
          /\ clusterInfo' = <<SortedLabels(kmClusterIdx, sortedClusters),
                              SortedCentroids(kmCentroids, sortedClusters)>>
    /\ pc' = "sorted"
    /\ UNCHANGED <<degMat, Lap, savedEig, weighted, outScalars, outPoints, rows, report,
                   outcome, inputs, built, filtered, clustered>>

\* k-means handed n embedding rows (n >= k) and asked for k clusters
InitSort ==
    /\ Untouched
    /\ pc = "kmeans"
    /\ fiberTree = <<>>
    /\ priorTree = <<>>
    /\ scalarTypeList = <<>>
    /\ scalarWeightList = <<>>
    /\ saveAllSimilarity = FALSE
    /\ saveWSimilarity = FALSE
    /\ k_clusters \in 1..MaxK
    /\ eig = <<>>
    /\ kmCentroids = <<>>
    /\ \E n \in 1..MaxRows :
          /\ n >= k_clusters
          /\ rowFiber = PyRange(0, n)
          /\ emvec = Embedding(n, k_clusters)

NextSort == KMeans2 \/ SortLabel

SpecSort == InitSort /\ [][NextSort]_vars

----------------------------------------------------------------------------
(* The earlier revision (src/tractography/cluster.py): k-means and its     *)
(* _sortLabel (101-102, 454-478).                                          *)

\* U = eigvec[:, 0:no_of_eigvec] (97), with no_of_eigvec = k_clusters (52)
EarlierEmbedding(n, k) == [t \in 1..n |-> [c \in 1..Min2(k, n) |-> <<t - 1, c - 1>>]]

\* newCentroids after the loop of the earlier _sortLabel (473-476): row i is
\* rewritten with centroids[newIdx[0][0]], the row at the position of i in
\* sortedClusters
EarlierSortedCentroids(cents, sortedClusters) ==
    [r \in DOMAIN cents |->
        IF (r - 1) \in 0..(Len(sortedClusters) - 1)
        THEN cents[FirstPosOf(sortedClusters, r - 1) + 1]
        ELSE cents[r]]

\* lines 101-102: kmeans2, then _sortLabel
EarlierCluster ==
    /\ pc = "earlierKmeans"
    /\ \E c \in CentroidRows(k_clusters, Len(emvec[1])) :
          \E l \in Labelings(Len(emvec), k_clusters) :
             \E sortedClusters \in ArgsortDesc(NpUniqueCounts(l)) :
                /\ kmCentroids' = c
                /\ kmClusterIdx' = l
                /\ clusterIdx' = SortedLabels(l, sortedClusters)
                /\ centroids' = EarlierSortedCentroids(c, sortedClusters)
    /\ pc' = "earlierSorted"
    /\ UNCHANGED <<effects, rows, report, outcome, inputs, built, filtered, emvec, dist>>

\* the earlier revision with its eigenvectors at hand, n rows, k clusters
InitEarlier ==
    /\ Untouched
    /\ pc = "earlierKmeans"
    /\ fiberTree = <<>>
    /\ priorTree = <<>>
    /\ scalarTypeList = <<>>
    /\ scalarWeightList = <<>>
    /\ saveAllSimilarity = FALSE
    /\ saveWSimilarity = FALSE
    /\ k_clusters \in 1..MaxK
    /\ eig = <<>>
    /\ kmCentroids = <<>>
    /\ \E n \in 1..MaxEarlierN :
          /\ n >= k_clusters
          /\ rowFiber = PyRange(0, n)
          /\ emvec = EarlierEmbedding(n, k_clusters)

SpecEarlier == InitEarlier /\ [][EarlierCluster]_vars

----------------------------------------------------------------------------
(* Outlier rejection (cluster.py 71-75, 811-833, 835-857) and the          *)
(* extension's projection and assignment (203-220).                        *)

\* np.sum(W, 0) of line 825: one sum per column
ColumnSums(M) ==
    IF M = <<>> THEN <<>>
    ELSE [j \in DOMAIN M[1] |-> SumSeq([i \in DOMAIN M |-> M[i][j]])]

SumOfSquares(r) == SumSeq([i \in DOMAIN r |-> r[i] * r[i]])

\* n^2 times the variance of r (np.std is the population deviation)
ScaledVariance(r) == Len(r) * SumOfSquares(r) - SumSeq(r) * SumSeq(r)

\* r <= np.mean(r) - 2.0 * np.std(r), entry by entry: the threshold taken as
\* inclusive, which rejects every entry of a constant r
BelowOrAtTwoStd(r) ==
    [i \in DOMAIN r |->
        LET gap == SumSeq(r) - Len(r) * r[i]
        IN gap >= 0 /\ gap * gap >= 4 * ScaledVariance(r)]

\* r < np.mean(r) - 2.0 * np.std(r), entry by entry: with n entries of sum S,
\* r[i] < S/n - 2*std  iff  S - n*r[i] > 0 and (S - n*r[i])^2 > 4*n^2*var
BelowTwoStd(r) ==
    [i \in DOMAIN r |->
        LET gap == SumSeq(r) - Len(r) * r[i]
        IN gap > 0 /\ gap * gap > 4 * ScaledVariance(r)]

\* r > np.mean(r) + 2.0 * np.std(r), entry by entry
AboveTwoStd(r) ==
    [i \in DOMAIN r |->
        LET gap == Len(r) * r[i] - SumSeq(r)
        IN gap > 0 /\ gap * gap > 4 * ScaledVariance(r)]

\* np.delete(W, rejIdx, 0)
DeleteRows(M, idx) == NpDelete(M, idx)

\* np.delete(W, rejIdx, 1)
DeleteColumns(M, idx) == [i \in DOMAIN M |-> NpDelete(M[i], idx)]

\* the name under which the affinity matrix is saved (75, 243)
WeightedName == <<"", "Weighted">>

\* _outlierSimDetection, and the save of 74-75
OutlierSimDetection ==
    /\ pc = "outlierSim"
    /\ \E rej \in {NpWhere(BelowTwoStd(ColumnSums(W)))} :
          /\ rejIdx' = rej
          /\ W' = DeleteColumns(DeleteRows(W, rej), rej)
          /\ rowFiber' = NpDelete(rowFiber, rej)
          /\ weighted' = IF saveWSimilarity
                          THEN DeleteColumns(DeleteRows(W, rej), rej) ELSE weighted
    /\ saved' = IF saveWSimilarity THEN saved \cup {WeightedName} ELSE saved
    /\ pc' = "embed"
    /\ UNCHANGED <<degMat, Lap, savedEig, clusterInfo, outScalars, outPoints, rows, report,
                   outcome, inputs, distances, similarities, clustered, returned>>

\* _degreeMatrix (553-567): np.diag(np.sum(inputMatrix, 0))
DegreeMatrix(M) ==
    [i \in DOMAIN M |-> [j \in DOMAIN M |-> IF i = j THEN ColumnSums(M)[i] ELSE 0]]

\* D - W (81)
MatSub(A, B) == [i \in DOMAIN A |-> [j \in DOMAIN A[i] |-> A[i][j] - B[i][j]]]

\* steps 2-4 of spectralClustering (77-84)
Laplacian ==
    /\ pc = "embed"
    /\ \E d \in {DegreeMatrix(W)} :
          /\ degMat' = d
          /\ Lap' = MatSub(d, W)
    /\ pc' = "eigen"
    /\ UNCHANGED <<savedEig, weighted, clusterInfo, outScalars, outPoints, rows, report,
                   outcome, inputs, built, filtered, clustered, returned>>

\* The eigenpairs of an n x n matrix are stood for by their ranks 1..n in
\* ascending order of eigenvalue; what eigh returns is a sequence of ranks,
\* position p holding the rank of the pair returned at p, eigenvalue and
\* eigenvector column alike.
EighOrders(n) ==
    IF n <= MaxPermN
    THEN {f \in [1..n -> 1..n] : \A i, j \in 1..n : i # j => f[i] # f[j]}
    ELSE {[i \in 1..n |-> i]}

\* eigval.argsort(): the positions in ascending order of eigenvalue
Argsort(raw) == [j \in DOMAIN raw |-> CHOOSE p \in DOMAIN raw : raw[p] = j]

\* the eigenvector columns left where eigh put them
ColumnsLeftInPlace(raw, idx) == raw

\* eigval[idx]
Reordered(raw, idx) == [j \in DOMAIN idx |-> raw[idx[j]]]

\* eigvec[:, idx]
ReorderedColumns(raw, idx) == [j \in DOMAIN idx |-> raw[idx[j]]]

\* step 5 of spectralClustering (86-91): eigh, the sort, and misc.saveEig
EigenDecompose ==
    /\ pc = "eigen"
    /\ \E raw \in EighOrders(Len(Lap)) :
          \E idx \in {Argsort(raw)} :
             savedEig' = [of |-> W, val |-> Reordered(raw, idx),
                          vec |-> ReorderedColumns(raw, idx)]
    /\ pc' = "select"
    /\ UNCHANGED <<degMat, Lap, weighted, clusterInfo, outScalars, outPoints, rows, report,
                   outcome, inputs, built, filtered, clustered, returned>>

\* step 6 of spectralClustering (93-102): the embedding has one row per row
\* of the filtered W
Embed ==
    /\ pc = "select"
    /\ emvec' = Embedding(Len(W), k_clusters)
    /\ printed' = IF k_clusters > Len(W) THEN Append(printed, ManyClustersMsg) ELSE printed
    /\ pc' = "kmeans"
    /\ UNCHANGED <<effects, rows, colour, outcome, inputs, built, filtered, kmCentroids,
                   kmClusterIdx, dist, returned>>

\* the message of 111 and 227
NotEnoughMsg == "Not enough eigenvectors selected!"

\* eigvec[:, lo:hi] of the n x n eigenvector matrix, entry (t, c) stood for
\* by <<t, c>>
EigvecSlice(n, lo, hi) ==
    [t \in 1..n |-> [c \in DOMAIN PyRange(lo, Min2(hi, n)) |-> <<t - 1, lo + c - 1>>]]

\* _cluster_to_rgb(data): one row per row of data, one entry per column among
\* its first three; entry c is component c of the row's first three entries
\* scaled to unit length and mapped to 0..255
ClusterToRgb(data) ==
    [t \in DOMAIN data |->
        [c \in 1..Min2(3, Len(data[t])) |->
            [of |-> SubSeq(data[t], 1, Min2(3, Len(data[t]))), at |-> c - 1]]]

\* the test of 110, with K = 1 let through
TooFewClustersBelowOne(k) == k < 1

\* the test of 110 / 224
TooFewClusters(k) == k <= 1

\* the columns of nEigvec taken (209-216): the first test reads the number of
\* new fibers n, the second the number of prior fibers m
\* (the rows of eigvec); nEigvec has m columns, and a slice ends with them
PriorEmbeddingColumns(n, m, k) ==
    IF k > n THEN PyRange(1, Min2(n, m))
    ELSE IF k = m THEN PyRange(1, k)
    ELSE PyRange(1, Min2(k + 1, m))

\* entry (t, c) of np.dot(np.dot(W, eigvec), invEigval), c counted from 0
ProjectedEntry(M, e, t, c) ==
    SumSeq([m \in DOMAIN M[t] |-> M[t][m] * e.vec[m][c + 1]]) \div e.val[c + 1]

\* steps 2-4 of spectralPriorCluster (203-217)
Project ==
    /\ pc = "project"
    /\ emvec' = LET cols == PriorEmbeddingColumns(Len(W), Len(priorTree), k_clusters)
                IN [t \in DOMAIN W |->
                       [c \in DOMAIN cols |-> ProjectedEntry(W, eig, t, cols[c])]]
    /\ printed' = IF k_clusters > Len(W) THEN Append(printed, ManyClustersMsg) ELSE printed
    /\ pc' = "vq"
    /\ UNCHANGED <<effects, rows, colour, outcome, inputs, built, filtered, kmCentroids,
                   kmClusterIdx, dist, returned>>

\* the square root of x, to the integer below
Isqrt(x) == CHOOSE r \in 0..x : r * r <= x /\ (r + 1) * (r + 1) > x

SqDistance(a, b) == SumSeq([c \in DOMAIN a |-> (a[c] - b[c]) * (a[c] - b[c])])

\* the Euclidean distance of two embedding rows: exact for rows of one
\* column, to the integer below for wider rows
RowDistance(a, b) == IF Len(a) = 1 THEN Abs(a[1] - b[1]) ELSE Isqrt(SqDistance(a, b))

\* the centroid of least signed difference in the first column
NearestCentroidSigned(row, cents) ==
    CHOOSE c \in 0..(Len(cents) - 1) :
        \A o \in 0..(Len(cents) - 1) : row[1] - cents[c + 1][1] <= row[1] - cents[o + 1][1]

\* the code of scipy.cluster.vq.vq for one row: the first nearest centroid
NearestCentroid(row, cents) ==
    CHOOSE c \in 0..(Len(cents) - 1) :
        /\ \A o \in 0..(Len(cents) - 1) :
              SqDistance(row, cents[c + 1]) <= SqDistance(row, cents[o + 1])
        /\ \A o \in 0..(c - 1) :
              SqDistance(row, cents[o + 1]) > SqDistance(row, cents[c + 1])

\* vq raises ValueError when there is no centroid, or when the rows and the
\* centroids differ in their number of columns
VqFails(obs, cents) == cents = <<>> \/ Len(obs[1]) # Len(cents[1])

\* step 5 of spectralPriorCluster and the colours (222-235)
Vq ==
    /\ pc = "vq"
    /\ IF VqFails(emvec, kmCentroids)
       THEN /\ outcome' = "ValueError"
            /\ pc' = "failed"
            /\ UNCHANGED <<clusterInfo, kmClusterIdx, dist, report>>
       ELSE /\ kmClusterIdx' = [t \in DOMAIN emvec |-> NearestCentroid(emvec[t], kmCentroids)]
            /\ clusterInfo' = <<[t \in DOMAIN emvec |-> NearestCentroid(emvec[t], kmCentroids)],
                                kmCentroids>>
            /\ dist' = [t \in DOMAIN emvec |->
                   RowDistance(emvec[t], kmCentroids[NearestCentroid(emvec[t], kmCentroids) + 1])]
            /\ IF TooFewClusters(k_clusters)
               THEN /\ printed' = Append(printed, NotEnoughMsg)
                    /\ outcome' = "ValueError"
                    /\ pc' = "failed"
                    /\ colour' = colour
               ELSE /\ printed' = printed
                    /\ outcome' = outcome
                    /\ pc' = "distOutlier"
                    /\ colour' = IF k_clusters = 2
                                 THEN ClusterToRgb(EigvecSlice(Len(eig.vec), 0, 3))
                                 ELSE ClusterToRgb(kmCentroids)
    /\ UNCHANGED <<degMat, Lap, savedEig, weighted, outScalars, outPoints, rows, inputs,
                   built, filtered, emvec, kmCentroids, returned>>

\* _distOutlierDetection, and the save of 240-243
DistOutlierDetection ==
    /\ pc = "distOutlier"
    /\ \E rej \in {NpWhere(AboveTwoStd(dist))} :
          /\ rejIdx' = rej
          /\ W' = DeleteRows(W, rej)
          /\ clusterIdx' = NpDelete(kmClusterIdx, rej)
          /\ rowFiber' = NpDelete(rowFiber, rej)
          /\ weighted' = IF saveWSimilarity THEN DeleteRows(W, rej) ELSE weighted
    /\ centroids' = kmCentroids
    /\ saved' = IF saveWSimilarity THEN saved \cup {WeightedName} ELSE saved
    /\ pc' = "filtered"
    /\ UNCHANGED <<degMat, Lap, savedEig, clusterInfo, outScalars, outPoints, rows, report,
                   outcome, inputs, distances, similarities, clustered>>

\* stores of fibers alike, but for a few unlike the first
OddStores(maxN, maxOdd) ==
    {s \in SeqsOf(PriorFibers, 1, maxN) :
        Cardinality({i \in DOMAIN s : s[i] # s[1]}) <= maxOdd}

\* the prior fibers of the extension: the two fibers, in either order
TailPriors == {q \in SeqsOf(PriorFibers, 2, 2) : q[1] # q[2]}

\* eigenbases the prior may hold for two prior fibers: the first eigenvalue
\* is 0 and its column is never read; the second is 1 or 2
EigBases ==
    {[val |-> <<0, v>>, vec |-> <<<<1, 1>>, <<1, -1>>>>] : v \in {1, 2}}

\* centroids the prior may hold for two clusters and one embedding column
PriorCentroids ==
    {c \in [1..2 -> {<<-SimScale>>, <<0>>, <<SimScale>>}] : c[1] # c[2]}

\* a geometry-only run of either path over the stores given
InitRun(stores, saves) ==
    /\ Untouched
    /\ fiberTree \in stores
    /\ scalarTypeList = <<>>
    /\ scalarWeightList = <<>>
    /\ saveAllSimilarity = FALSE
    /\ saveWSimilarity \in saves
    /\ k_clusters = 2
    /\ emvec = <<>>
    /\ rowFiber = PyRange(0, Len(fiberTree))
    /\ \/ /\ pc = "trainAffinity"
          /\ priorTree = <<>>
          /\ eig = <<>>
          /\ kmCentroids = <<>>
       \/ /\ pc = "priorAffinity"
          /\ priorTree \in TailPriors
          /\ eig \in EigBases
          /\ kmCentroids \in PriorCentroids

InitOut == InitRun(OddStores(MaxOutN, MaxOdd), {FALSE})

NextOut ==
    \/ PairwiseWeightedSimilarity
    \/ OutlierSimDetection
    \/ PriorWeightedSimilarity
    \/ Project
    \/ Vq
    \/ DistOutlierDetection

\* both paths up to the end of outlier rejection
SpecOut == InitOut /\ [][NextOut]_vars

InitTail == InitRun(SeqsOf(PriorFibers, 2, MaxTailN), BOOLEAN)

NextTail ==
    \/ PairwiseWeightedSimilarity
    \/ OutlierSimDetection
    \/ Laplacian
    \/ EigenDecompose
    \/ Embed
    \/ KMeans2
    \/ SortLabel
    \/ PriorWeightedSimilarity
    \/ Project
    \/ Vq
    \/ DistOutlierDetection

\* both paths up to the labels returned
SpecTail == InitTail /\ [][NextTail]_vars

----------------------------------------------------------------------------
(* The row-sum filter over affinities of several shapes (cluster.py        *)
(* 67-75, 811-833).                                                        *)

MaxSumN == 7

\* stores of 6..maxN fibers of which at most two are unlike the first
SumStores(maxN) ==
    {s \in SeqsOf(RowFibers, 6, maxN) :
        Cardinality({i \in DOMAIN s : s[i] # s[1]}) <= 2}

\* a geometry-only training run over such a store
InitSums ==
    /\ Untouched
    /\ pc = "trainAffinity"
    /\ fiberTree \in SumStores(MaxSumN)
    /\ priorTree = <<>>
    /\ scalarTypeList = <<>>
    /\ scalarWeightList = <<>>
    /\ saveAllSimilarity = FALSE
    /\ saveWSimilarity = FALSE
    /\ k_clusters = 2
    /\ eig = <<>>
    /\ emvec = <<>>
    /\ kmCentroids = <<>>
    /\ rowFiber = PyRange(0, Len(fiberTree))

NextSums ==
    \/ PairwiseWeightedSimilarity
    \/ OutlierSimDetection
    \/ Laplacian

\* training up to the Laplacian
SpecSums == InitSums /\ [][NextSums]_vars

----------------------------------------------------------------------------
(* Colours and the return of training (cluster.py 110-131, 569-629).       *)

\* lines 110-119
ClusterColour ==
    /\ pc = "sorted"
    /\ IF TooFewClusters(k_clusters)
       THEN /\ printed' = Append(printed, NotEnoughMsg)
            /\ outcome' = "ValueError"
            /\ pc' = "failed"
            /\ colour' = colour
       ELSE /\ printed' = printed
            /\ outcome' = outcome
            /\ pc' = "format"
            /\ colour' = IF k_clusters = 2
                         THEN ClusterToRgb(EigvecSlice(Len(W), 0, 3))
                         ELSE ClusterToRgb(centroids)
    /\ UNCHANGED <<effects, inputs, built, filtered, clustered, returned, rows>>

\* _format_outputVTK reads colour[clusterIdx[fidx], 0], [.., 1] and [.., 2]
\* for every fiber of the output (617-622)
FormatFails(cIdx, col) ==
    \E t \in DOMAIN cIdx : cIdx[t] + 1 > Len(col) \/ Len(col[cIdx[t] + 1]) < 3

\* fiberData.convertToVTK(rejIdx) (123, 245): the output polydata holds the
\* points of the fibers that are not rejected
RECURSIVE ConvertToVTK(_, _, _)
ConvertToVTK(tree, rej, fidx) ==
    IF fidx >= Len(tree) THEN 0
    ELSE (IF fidx \in Range(rej) THEN 0 ELSE Len(tree[fidx + 1].pts))
         + ConvertToVTK(tree, rej, fidx + 1)

\* addScalarToVTK with fidxes = None (272-277): the values appended to the
\* array of scalarType, fiber by fiber from fidx on, those of rej skipped
RECURSIVE AddScalarToVTK(_, _, _, _)
AddScalarToVTK(tree, scalarType, rej, fidx) ==
    IF fidx >= Len(tree) THEN <<>>
    ELSE (IF fidx \in Range(rej) THEN <<>> ELSE tree[fidx + 1].sc[scalarType])
         \o AddScalarToVTK(tree, scalarType, rej, fidx + 1)

\* the rejIdx argument of addScalarToVTK: training passes rejIdx (128-129),
\* the extension leaves the default [] (250)
ScalarRejIdx == IF pc = "format" THEN rejIdx ELSE <<>>

\* lines 121-131 and 245-252
ReturnResults ==
    /\ pc \in {"format", "filtered"}
    /\ IF FormatFails(clusterIdx, colour)
       THEN /\ outcome' = "IndexError"
            /\ pc' = "failed"
            /\ UNCHANGED <<outScalars, outPoints>>
       ELSE /\ outcome' = "ok"
            /\ pc' = "returned"
            /\ outPoints' = ConvertToVTK(fiberTree, rejIdx, 0)
            /\ outScalars' = [i \in DOMAIN scalarTypeList |->
                                 AddScalarToVTK(fiberTree, scalarTypeList[i],
                                                ScalarRejIdx, 0)]
    /\ UNCHANGED <<degMat, Lap, savedEig, weighted, clusterInfo, inputs, built,
                   filtered, clustered, returned, rows, report>>

\* stores of fibers that are all alike: nothing is rejected from them
AlikeStores(maxN) == SeqsOf({Fiber(<<0, 0>>, NoScalars)}, 1, maxN)

\* a training run from its affinity step on, asked for any number of clusters
InitTrain ==
    /\ Untouched
    /\ pc = "trainAffinity"
    /\ fiberTree \in AlikeStores(MaxRows)
    /\ priorTree = <<>>
    /\ scalarTypeList = <<>>
    /\ scalarWeightList = <<>>
    /\ saveAllSimilarity = FALSE
    /\ saveWSimilarity = FALSE
    /\ k_clusters \in 0..MaxK
    /\ eig = <<>>
    /\ emvec = <<>>
    /\ kmCentroids = <<>>
    /\ rowFiber = PyRange(0, Len(fiberTree))

\* the eigenbasis of a prior of m fibers whose eigenvectors are the unit
\* vectors and whose eigenvalues are 0, 1, 2, ..: the first column is never
\* read, and a projected entry tells by its value which column it is from
UnitBasis(m) ==
    [val |-> [c \in 1..m |-> c - 1],
     vec |-> [r \in 1..m |-> [c \in 1..m |-> IF r = c THEN 1 ELSE 0]]]

\* the centroids a training run over m retained fibers leaves for k clusters
TrainedCentroids(m, k) ==
    {[i \in 1..k |-> [c \in DOMAIN r[i] |-> SimScale * r[i][c]]] :
        r \in CentroidRows(k, Len(EmbeddingColumns(m, k)))}

\* an extension run from its affinity step on, its prior left by a training
\* run over as many fibers as the prior holds, for any number of clusters
InitPrior ==
    /\ Untouched
    /\ pc = "priorAffinity"
    /\ fiberTree \in AlikeStores(MaxRows)
    /\ priorTree \in AlikeStores(MaxRows)
    /\ scalarTypeList = <<>>
    /\ scalarWeightList = <<>>
    /\ saveAllSimilarity = FALSE
    /\ saveWSimilarity = FALSE
    /\ eig = UnitBasis(Len(priorTree))
    /\ k_clusters \in 0..MaxK
    /\ kmCentroids \in TrainedCentroids(Len(priorTree), k_clusters)
    /\ emvec = <<>>
    /\ rowFiber = PyRange(0, Len(fiberTree))

NextShape ==
    \/ PairwiseWeightedSimilarity
    \/ OutlierSimDetection
    \/ Laplacian
    \/ EigenDecompose
    \/ Embed
    \/ KMeans2
    \/ SortLabel
    \/ ClusterColour
    \/ PriorWeightedSimilarity
    \/ Project
    \/ Vq
    \/ DistOutlierDetection
    \/ ReturnResults

\* both paths from the affinity to the return, over fibers that are alike,
\* for any number of clusters
InitShape == InitTrain \/ InitPrior

SpecShape == InitShape /\ [][NextShape]_vars

\* priors of three fibers, not all alike: with two clusters the colours are
\* then made of three eigenvector columns (229-232)
VtkPriors == {q \in SeqsOf(PriorFibers, 3, 3) : Range(q) = PriorFibers}

\* centroids such a prior may hold for two clusters and two embedding columns
VtkCentroids ==
    {c \in [1..2 -> {<<0, 0>>, <<SimScale, 0>>, <<SimScale, SimScale>>}] : c[1] # c[2]}

\* a run of either path from its affinity step to its return, with or
\* without the FA channel weighted equally with the geometry
InitVtk ==
    /\ Untouched
    /\ fiberTree \in OddStores(MaxVtkN, 1)
    /\ \/ scalarTypeList = <<>> /\ scalarWeightList = <<>>
       \/ scalarTypeList = <<"FA">> /\ scalarWeightList = <<WUnit \div 2, WUnit \div 2>>
    /\ saveAllSimilarity = FALSE
    /\ saveWSimilarity = FALSE
    /\ k_clusters = 2
    /\ emvec = <<>>
    /\ rowFiber = PyRange(0, Len(fiberTree))
    /\ \/ /\ pc = "trainAffinity"
          /\ priorTree = <<>>
          /\ eig = <<>>
          /\ kmCentroids = <<>>
       \/ /\ pc = "priorAffinity"
          /\ priorTree \in VtkPriors
          /\ eig = UnitBasis(3)
          /\ kmCentroids \in VtkCentroids

\* both paths from the affinity to the arrays of the output
SpecVtk == InitVtk /\ [][NextShape]_vars

\* the steps of a run that has not ended
Underway ==
    pc \in {"trainAffinity", "outlierSim", "embed", "eigen", "select", "kmeans", "sortLabel",
            "sorted",
            "priorAffinity", "project", "vq"}

\* C13: a training run asked for at most one cluster, and an extension run
\* whose prior holds at most one centroid, is either still on its way to the
\* test of the number of clusters or has ended with the ValueError of a
\* degenerate clustering; it never reaches the formatting of the output,
\* never makes colours and never returns.
C13_DegenerateFails ==
    k_clusters <= 1 =>
        /\ pc \notin {"format", "distOutlier", "filtered", "returned"}
        /\ colour = <<>>
        /\ outcome \in {"none", "ValueError"}
        /\ Underway \/ (pc = "failed" /\ outcome = "ValueError")

\* an extension run with one prior centroid that labelled its fibers and
\* then ended at the test of 226
C13_Witness ==
    /\ k_clusters = 1
    /\ priorTree # <<>>
    /\ kmClusterIdx # <<>>
    /\ pc = "failed"
    /\ outcome = "ValueError"
    /\ printed = <<NotEnoughMsg>>

----------------------------------------------------------------------------
(* The entry of the two paths (cluster.py 50-65, 163-197).                 *)

\* the message of 59 and 191
ZeroFibersMsg == "0 fibers"

\* the messages of 178 and 181
NoEigvalMsg == "Eigenvalue binary file does not exist"

NoEigvecMsg == "Eigenvector binary file does not exist"

\* the test of 190 with the prior store left out
PriorInputEmptyNewOnly(noFibers, nopriorFibers) == noFibers = 0

\* the test of 190
PriorInputEmpty(noFibers, nopriorFibers) == noFibers = 0 \/ nopriorFibers = 0

\* spectralClustering up to its first step (50-65)
StartTraining ==
    /\ pc = "start"
    /\ IF Len(fiberTree) = 0
       THEN /\ printed' = Append(printed, ZeroFibersMsg)
            /\ outcome' = "ValueError"
            /\ pc' = "failed"
       ELSE /\ printed' = printed
            /\ outcome' = outcome
            /\ pc' = "trainAffinity"
    /\ UNCHANGED <<effects, inputs, built, filtered, clustered, returned, rows, colour>>

\* spectralPriorCluster up to its first step (163-197).  An eigenvalue or
\* eigenvector file that is not there is an empty val or vec of eig.
LoadPrior ==
    /\ pc = "priorStart"
    /\ IF eig.val = <<>>
       THEN printed' = Append(printed, NoEigvalMsg) /\ outcome' = "IOError" /\ pc' = "failed"
       ELSE IF eig.vec = <<>>
       THEN printed' = Append(printed, NoEigvecMsg) /\ outcome' = "IOError" /\ pc' = "failed"
       ELSE IF PriorInputEmpty(Len(fiberTree), Len(priorTree))
       THEN printed' = Append(printed, ZeroFibersMsg) /\ outcome' = "ValueError" /\ pc' = "failed"
       ELSE printed' = printed /\ outcome' = outcome /\ pc' = "priorAffinity"
    /\ UNCHANGED <<effects, inputs, built, filtered, clustered, returned, rows, colour>>

\* stores of the two fibers, the empty store among them
EntryStores == SeqsOf(PriorFibers, 0, MaxAffFibers)

\* the eigenvalue and eigenvector files next to the prior, there or not
EigFiles ==
    EigBases \cup {[val |-> <<>>, vec |-> e.vec] : e \in EigBases}
             \cup {[val |-> e.val, vec |-> <<>>] : e \in EigBases}

\* a call of either path, geometry only
InitEntry ==
    /\ Untouched
    /\ fiberTree \in EntryStores
    /\ scalarTypeList = <<>>
    /\ scalarWeightList = <<>>
    /\ saveAllSimilarity = FALSE
    /\ saveWSimilarity = FALSE
    /\ k_clusters = 2
    /\ emvec = <<>>
    /\ rowFiber = PyRange(0, Len(fiberTree))
    /\ \/ /\ pc = "start"
          /\ priorTree = <<>>
          /\ eig = [val |-> <<>>, vec |-> <<>>]
          /\ kmCentroids = <<>>
       \/ /\ pc = "priorStart"
          /\ priorTree \in EntryStores
          /\ eig \in EigFiles
          /\ kmCentroids \in PriorCentroids

NextEntry ==
    \/ StartTraining
    \/ LoadPrior
    \/ PairwiseWeightedSimilarity
    \/ PriorWeightedSimilarity

\* both paths from the call to the affinity
SpecEntry == InitEntry /\ [][NextEntry]_vars

----------------------------------------------------------------------------
(* Claims about the entry of the two paths.                                *)

\* the run has ended with the error of an empty input, nothing built and
\* nothing to return
EndedOnEmptyInput ==
    /\ pc' = "failed"
    /\ outcome' = "ValueError"
    /\ printed' = <<ZeroFibersMsg>>
    /\ W' = <<>> /\ saved' = {} /\ distances' = <<>> /\ similarities' = <<>>
    /\ clusterIdx' = <<>> /\ centroids' = <<>> /\ colour' = <<>>

----------------------------------------------------------------------------
(* Claims about the row tasks of the distance builder.                     *)

\* the fiber with its points in the opposite order
ReverseFiber(f) == Fiber([p \in DOMAIN f.pts |-> f.pts[Len(f.pts) + 1 - p]], f.sc)

\* the store with the fibers at the positions in flip reversed
ReverseSome(tree, flip) ==
    [q \in DOMAIN tree |-> IF q \in flip THEN ReverseFiber(tree[q]) ELSE tree[q]]

\* C11: the distance min(d_forward, d_reverse) does not depend on the
\* orientation of a fiber: reversing the points of any subset of the fibers
\* of the store gives, entry by entry, the matrix that was assembled before
\* normalisation.
C11_OrientationInvariant ==
    pc = "normalise" =>
        \A flip \in SUBSET DOMAIN fiberTree :
            AssembleSquare(PairwiseRows(ReverseSome(fiberTree, flip))) = rawDistances

\* C11 witness: a store in which reversing a fiber changes the forward
\* comparison, and whose matrix has been assembled
C11_Witness ==
    /\ pc = "normalise"
    /\ \E q, o \in DOMAIN fiberTree :
          /\ ForwardSum(fiberTree[q].pts, ReverseFiber(fiberTree[o]).pts)
                # ForwardSum(fiberTree[q].pts, fiberTree[o].pts)
          /\ rawDistances[q][o] > 0

----------------------------------------------------------------------------
(* Claims about outlier rejection.                                         *)

\* an outlier filter has returned
OutlierDone == pc \in {"embed", "filtered"}

\* the fibers that are not rejected, in original index order
Retained == SortedSeqOf((0..(Len(fiberTree) - 1)) \ Range(rejIdx))

\* C3: after either outlier filter the rejected indices and the indices of the
\* retained fibers are disjoint, together they are exactly 0..N-1, and the
\* rejected indices are listed once each in ascending order.
C3_RejectedRetainedPartition ==
    OutlierDone =>
        /\ Range(rejIdx) \cap Range(rowFiber) = {}
        /\ Range(rejIdx) \cup Range(rowFiber) = 0..(Len(fiberTree) - 1)
        /\ \A i, j \in DOMAIN rejIdx : i < j => rejIdx[i] < rejIdx[j]
        /\ Len(W) = Len(rowFiber)

\* C3 witness: the centroid-distance filter rejects two fibers that are not
\* neighbours, neither of them the first
C3_Witness ==
    /\ pc = "filtered"
    /\ Len(rejIdx) = 2
    /\ rejIdx[1] > 0
    /\ rejIdx[2] > rejIdx[1] + 1

\* C4: the labels returned are as many as the retained fibers and entry t
\* belongs to the t-th retained fiber in original order.  Training: row t of
\* the matrix that is embedded is the affinity row of that fiber, restricted
\* to the retained fibers; the embedding and kmeans2 keep one row per row of
\* it, and _sortLabel renames labels without moving them.  Extension: entry
\* t is the label vq gave that fiber, and row t of the returned W is that
\* fiber's affinity row.
C4_LabelsAligned ==
    LET kept == Retained
        full == similarities[1]
    IN /\ pc = "sorted" =>
             /\ Len(clusterIdx) = Len(fiberTree) - Len(rejIdx)
             /\ Len(W) = Len(clusterIdx)
             /\ \A t, u \in DOMAIN W : W[t][u] = full[kept[t] + 1][kept[u] + 1]
             /\ \A t \in DOMAIN emvec : \A c \in DOMAIN emvec[t] : emvec[t][c][1] = t - 1
             /\ Len(kmClusterIdx) = Len(W)
             /\ \A t, u \in DOMAIN clusterIdx :
                   (clusterIdx[t] = clusterIdx[u]) <=> (kmClusterIdx[t] = kmClusterIdx[u])
       /\ pc = "filtered" =>
             /\ Len(clusterIdx) = Len(fiberTree) - Len(rejIdx)
             /\ Len(W) = Len(clusterIdx)
             /\ \A t \in DOMAIN clusterIdx :
                   /\ clusterIdx[t] = kmClusterIdx[kept[t] + 1]
                   /\ W[t] = full[kept[t] + 1]

\* C4 witness: a training run that rejected a fiber in the middle and
\* returned two different labels
C4_Witness ==
    /\ pc = "sorted"
    /\ Len(rejIdx) = 1
    /\ rejIdx[1] > 0
    /\ rejIdx[1] < Len(fiberTree) - 1
    /\ \E t, u \in DOMAIN clusterIdx : clusterIdx[t] # clusterIdx[u]

----------------------------------------------------------------------------
(* Claims about the affinity builders.                                     *)

\* the affinity step of either path has run
AffinityDone == pc \in {"outlierSim", "project", "failed"}

TrainMode == priorTree = <<>>

\* the geometry similarity S_g of the run's stores
GeometrySimilarity ==
    IF TrainMode
    THEN GausKernelSimilarity(MinMaxScale(AssembleSquare(PairwiseRows(fiberTree))))
    ELSE GausKernelSimilarity(PriorDistanceMatrix(fiberTree, priorTree))

NothingBuilt == W = <<>> /\ saved = {} /\ distances = <<>> /\ similarities = <<>>

\* C5: when exactly one of the weight list and the type list is empty, the
\* builder (training or extension) ends with the weight-specification error
\* and no distance or similarity matrix has been computed or persisted.
C5_MismatchFails ==
    (AffinityDone /\ ((scalarWeightList = <<>>) # (scalarTypeList = <<>>)))
        => (outcome = "WeightSpecError" /\ NothingBuilt)

\* C5 witness: the extension builder given weights but no types, and stopped
C5_Witness ==
    /\ AffinityDone
    /\ ~TrainMode
    /\ scalarWeightList # <<>>
    /\ scalarTypeList = <<>>
    /\ SumSeq(scalarWeightList) = WUnit
    /\ outcome = "WeightSpecError"

\* C6 (as claimed): with at least one channel and weights that do not sum to
\* 1, the builder ends with the weight-sum error and returns no matrix, a
\* leading weight of 1 included.
C6_WrongSumFails ==
    (/\ AffinityDone
     /\ scalarTypeList # <<>>
     /\ scalarWeightList # <<>>
     /\ SumSeq(scalarWeightList) # WUnit)
        => (outcome = "WeightSumError" /\ W = <<>>)

\* C7 (as claimed): with no channels the builder returns S_g both for an empty
\* weight list and for the weight list [1].
C7_NoChannelsReturnsGeometry ==
    (AffinityDone /\ scalarTypeList = <<>> /\ scalarWeightList \in {<<>>, <<WUnit>>})
        => (outcome = "none" /\ W = GeometrySimilarity)

\* C7 (amended): with no channels and an empty weight list the builder returns
\* exactly S_g; with no channels and the weight list [1] it ends with the
\* weight-specification error and returns nothing.
C7_NoChannelsAmended ==
    /\ (AffinityDone /\ scalarTypeList = <<>> /\ scalarWeightList = <<>>)
          => (outcome = "none" /\ W = GeometrySimilarity)
    /\ (AffinityDone /\ scalarTypeList = <<>> /\ scalarWeightList = <<WUnit>>)
          => (outcome = "WeightSpecError" /\ W = <<>>)

\* C7 witness: S_g returned for two fibers that are not alike
C7_Witness ==
    /\ AffinityDone
    /\ TrainMode
    /\ scalarTypeList = <<>>
    /\ scalarWeightList = <<>>
    /\ outcome = "none"
    /\ Len(W) = 2
    /\ W[1][2] # SimScale

\* the weighted sum w[0]*S_g + sum of w[c]*S_c of the training stores, with
\* the channel similarities computed pair by pair
ChannelSimilarity(type) ==
    GausKernelSimilarity(MinMaxScale(
        [i \in DOMAIN fiberTree |-> [j \in DOMAIN fiberTree |->
            PairDistance(fiberTree[i].sc[type], fiberTree[j].sc[type])]]))

WeightedEntry(i, j) ==
    scalarWeightList[1] * GeometrySimilarity[i][j]
    + SumSeq([c \in DOMAIN scalarTypeList |->
                 scalarWeightList[c + 1] * ChannelSimilarity(scalarTypeList[c])[i][j]])

\* C8 (as claimed): with C >= 1 channels and C+1 weights that sum to 1,
\* training returns the affinity w[0]*S_g + sum of w[c]*S_c, with unit diagonal.
C8_TrainingWeightedSum ==
    (/\ AffinityDone
     /\ TrainMode
     /\ scalarTypeList # <<>>
     /\ Len(scalarWeightList) = Len(scalarTypeList) + 1
     /\ SumSeq(scalarWeightList) = WUnit)
        => /\ outcome = "none"
           /\ DOMAIN W = DOMAIN fiberTree
           /\ \A i, j \in DOMAIN W : W[i][j] * WUnit = WeightedEntry(i, j)
           /\ \A i \in DOMAIN W : W[i][i] = SimScale

\* C9 (as claimed): the normalised distance matrix of the square builder is
\* symmetric and has an all-zero diagonal.
C9_DistancesSymmetric ==
    (AffinityDone /\ TrainMode /\ distances # <<>>)
        => LET d == distances[1]
           IN /\ \A i, j \in DOMAIN d : d[i][j] = d[j][i]
              /\ \A i \in DOMAIN d : d[i][i] = Frac(0, 1)

\* C10 (as claimed): a nonzero diagonal entry of a distance matrix, or a
\* diagonal entry of a similarity matrix that is not 1, ends the construction
\* with the invariant violation.
C10_BadDiagonalFails ==
    pc = "checked" =>
        /\ (distances # <<>> /\ \E i \in DOMAIN distances[1] :
                distances[1][i][i] # Frac(0, 1))
              => outcome = "InvariantViolation"
        /\ (similarities # <<>> /\ \E i \in DOMAIN similarities[1] :
                similarities[1][i][i] # SimScale)
              => outcome = "InvariantViolation"

----------------------------------------------------------------------------
(* Claims about _sortLabel.                                                *)

\* C1 (as claimed): after _sortLabel the label counts never increase with the
\* label: count(0) >= count(1) >= ... >= count(K-1), for every labeling,
\* empty clusters included.
C1_CountsDescending ==
    pc = "sorted" =>
        \A a, b \in 0..(k_clusters - 1) :
            a < b => CountOf(clusterIdx, a) >= CountOf(clusterIdx, b)

\* C2: the centroid row returned at a fiber's new label is the row kmeans2
\* returned at that fiber's original label.
C2_CentroidsFollowLabels ==
    pc = "sorted" =>
        \A t \in DOMAIN clusterIdx :
            centroids[clusterIdx[t] + 1] = kmCentroids[kmClusterIdx[t] + 1]

\* C2 witness: a run in which _sortLabel really moved a label, with three
\* clusters of different sizes, and one in which a cluster was empty
C2_Witness ==
    /\ pc = "sorted"
    /\ k_clusters = 3
    /\ \E t \in DOMAIN clusterIdx : clusterIdx[t] # kmClusterIdx[t]
    /\ \E a \in 0..2 : CountOf(kmClusterIdx, a) = 0

----------------------------------------------------------------------------
(* The shape of the embedding and of the centroids.                        *)

\* a training run asked for more than one cluster that has made its embedding
TrainEmbedded == priorTree = <<>> /\ k_clusters > 1 /\ emvec # <<>>

\* every row of m has w columns
Width(m, w) == \A i \in DOMAIN m : Len(m[i]) = w

\* C14: for every K > 1 and every number n of retained fibers the embedding
\* handed to k-means in training has K - 1 columns, and the centroid matrix
\* returned is K x (K - 1).
C14_EmbeddingOneFewer ==
    TrainEmbedded =>
        /\ Width(emvec, k_clusters - 1)
        /\ centroids # <<>> => Len(centroids) = k_clusters /\ Width(centroids, k_clusters - 1)

\* C14, amended: the embedding has K columns when K < n and n - 1 columns
\* otherwise (that is K - 1 only when K = n), one row per retained fiber, and
\* the centroid matrix returned has K rows of as many columns as the embedding.
C14_EmbeddingAmended ==
    TrainEmbedded =>
        LET w == Min2(k_clusters, Len(W) - 1)
        IN /\ Len(emvec) = Len(W)
           /\ Width(emvec, w)
           /\ \A t \in DOMAIN emvec : \A c \in 1..w : emvec[t][c] = <<t - 1, c>>
           /\ centroids # <<>> => Len(centroids) = k_clusters /\ Width(centroids, w)

\* two clusters over three fibers: centroids of two columns are returned
C14_Witness ==
    /\ TrainEmbedded
    /\ k_clusters = 2
    /\ Len(W) = 3
    /\ centroids # <<>>
    /\ pc = "returned"

\* C15: for every K >= 2 the colour matrix produced has exactly K rows and
\* 3 columns.
C15_ColourShape ==
    (k_clusters >= 2 /\ colour # <<>>) => Len(colour) = k_clusters /\ Width(colour, 3)

----------------------------------------------------------------------------
(* The labels of the extension.                                            *)

\* label l is in range for the centroids and names a centroid nearest to row
NearestLabel(row, l, cents) ==
    /\ l \in 0..(Len(cents) - 1)
    /\ \A o \in 0..(Len(cents) - 1) :
          SqDistance(row, cents[l + 1]) <= SqDistance(row, cents[o + 1])

ExtensionLabelled == priorTree # <<>> /\ pc \in {"distOutlier", "filtered"}

\* C16: every label the extension gives is in [0, K_prior) and is the index of
\* a prior centroid nearest (Euclidean) to the fiber's embedding row, for the
\* labels of vq and for the labels kept after the distance filter; the prior
\* centroids are returned as loaded, and no step of an extension run changes
\* or reorders them.
C16_NearestPriorCentroid ==
    /\ [](ExtensionLabelled =>
            /\ Len(kmClusterIdx) = Len(fiberTree)
            /\ \A t \in DOMAIN kmClusterIdx :
                  NearestLabel(emvec[t], kmClusterIdx[t], kmCentroids)
            /\ pc = "filtered" =>
                  /\ centroids = kmCentroids
                  /\ \A i \in DOMAIN clusterIdx :
                        NearestLabel(emvec[rowFiber[i] + 1], clusterIdx[i], kmCentroids))
    /\ [][priorTree # <<>> => kmCentroids' = kmCentroids /\ Len(kmCentroids) = k_clusters]_vars

\* an extension run in which both prior centroids were given to some fiber
C16_Witness ==
    /\ priorTree # <<>>
    /\ pc = "filtered"
    /\ \E i, j \in DOMAIN clusterIdx : clusterIdx[i] = 0 /\ clusterIdx[j] = 1

----------------------------------------------------------------------------
(* The row tasks of the distance builder.                                  *)

\* the row task q computes, whoever runs it and whenever
RowOf(q) == FiberDistance(fiberTree[q], GetFibers(fiberTree, q - 1, Len(fiberTree)))

\* C17: for every number of workers and every interleaving of the row tasks,
\* the result at position i is the row of task i, the assembled matrix is the
\* one the tasks give when run one after another, and a step of a worker
\* writes one position only, never one already written.
C17_RowsDeterministic ==
    /\ [](pc = "rowTasks" =>
            /\ Len(tempRows) = Len(fiberTree)
            /\ \A q \in DOMAIN tempRows : tempRows[q].st = "done" => tempRows[q].val = RowOf(q))
    /\ [](pc = "normalise" => rawDistances = AssembleSquare(PairwiseRows(fiberTree)))
    /\ [][(pc = "rowTasks" /\ pc' = "rowTasks") =>
            /\ Cardinality({q \in DOMAIN tempRows : tempRows'[q] # tempRows[q]}) <= 1
            /\ \A q \in DOMAIN tempRows : tempRows[q].st = "done" => tempRows'[q] = tempRows[q]]_vars

\* two workers, the second task ended before the first
C17_Witness ==
    /\ pc = "rowTasks"
    /\ no_of_jobs = 2
    /\ Len(tempRows) = 3
    /\ tempRows[1].st = "running"
    /\ tempRows[2].st = "done"
    /\ fiberTree[1] # fiberTree[2]

----------------------------------------------------------------------------
(* The row-sum filter.                                                     *)

\* r_i, the sum of row i of M
RowSums(M) == [i \in DOMAIN M |-> SumSeq(M[i])]

\* C18: the row-sum filter of training rejects fiber i exactly when its row
\* sum r_i is below mean(r) - 2 std(r), for every affinity the builder makes,
\* symmetric or not, and removes row i and column i of exactly those fibers.
C18_RowSumRule ==
    (pc = "embed" /\ priorTree = <<>>) =>
        LET full == similarities[1]
            rej == NpWhere(BelowTwoStd(RowSums(full)))
        IN /\ rejIdx = rej
           /\ W = DeleteColumns(DeleteRows(full, rej), rej)

----------------------------------------------------------------------------
(* The columns of the embedding.                                           *)

Warned == \E i \in DOMAIN printed : printed[i] = ManyClustersMsg

\* C19: the embedding of training never holds the first eigenvector; it is
\* made of the next K columns, 1..K; when K is more than the eigenvectors
\* left after the first (n - 1 for n retained fibers) the warning is printed,
\* all that are left are taken and the run goes on to k-means.
C19_NextKColumns ==
    (priorTree = <<>> /\ pc = "kmeans" /\ k_clusters >= 1) =>
        LET left == Len(W) - 1
            w == IF k_clusters <= left THEN k_clusters ELSE left
        IN /\ Width(emvec, w)
           /\ \A t \in DOMAIN emvec : \A c \in 1..w : emvec[t][c] = <<t - 1, c>>
           /\ Warned <=> k_clusters > left
           /\ outcome = "none"

\* C20: for every number of new fibers, of prior fibers and of clusters the
\* projected embedding of the extension leaves out column 0 and has as many
\* columns as the embedding of the training run that made the prior, so that
\* its rows and the prior centroids have the same dimension and vq accepts
\* them.
C20_SameColumns ==
    (priorTree # <<>> /\ emvec # <<>> /\ k_clusters >= 2) =>
        LET w == Len(EmbeddingColumns(Len(priorTree), k_clusters))
        IN /\ Width(kmCentroids, w)
           /\ Len(emvec) = Len(fiberTree)
           /\ Width(emvec, w)
           /\ \A t \in DOMAIN emvec : \A c \in 1..w : emvec[t][c] = SimScale \div c
           /\ outcome # "ValueError"

----------------------------------------------------------------------------
(* The degree matrix and the Laplacian.                                    *)

\* C21: the degree matrix has the row sum of fiber i at (i, i) and zeros
\* elsewhere, so that every row of L = D - W sums to zero, for every affinity
\* that reaches the embedder.
C21_RowsOfLaplacianSumToZero ==
    pc = "eigen" =>
        /\ \A i, j \in DOMAIN degMat :
              degMat[i][j] = IF i = j THEN RowSums(W)[i] ELSE 0
        /\ \A i \in DOMAIN Lap : SumSeq(Lap[i]) = 0

----------------------------------------------------------------------------
(* The square builder of a scalar channel.                                 *)

\* C22: for every N >= 1 the square builder of a scalar channel ends without
\* an indexing failure, and before normalisation its entries (i, j) and (j, i),
\* i <= j, are the scalar distance of fibers i and j.
C22_QBuilderMirrorsGeometry ==
    (AffinityDone /\ TrainMode /\ scalarTypeList # <<>>
        /\ Len(scalarWeightList) = Len(scalarTypeList) + 1
        /\ SumSeq(scalarWeightList) = WUnit) =>
        /\ outcome # "IndexError"
        /\ \A c \in DOMAIN scalarTypeList :
              LET type == scalarTypeList[c]
                  temp == PairwiseQRows(fiberTree, type)
              IN /\ ~QAssembleFails(temp)
                 /\ \A i, j \in DOMAIN fiberTree : i <= j =>
                       LET d == PairDistance(fiberTree[i].sc[type], fiberTree[j].sc[type])
                       IN /\ QAssembleSquare(temp)[i][j] = d
                          /\ QAssembleSquare(temp)[j][i] = d

----------------------------------------------------------------------------
(* The order of the stages of training.                                    *)

\* the stages of training, each with the one that follows it: affinity,
\* row-sum filter, degree and Laplacian, eigendecomposition with its sort and
\* its save, choice of columns, k-means, canonical labels
TrainOrder ==
    {<<"trainAffinity", "outlierSim">>, <<"outlierSim", "embed">>, <<"embed", "eigen">>,
     <<"eigen", "select">>, <<"select", "kmeans">>, <<"kmeans", "sortLabel">>,
     <<"sortLabel", "sorted">>}

\* the affinity of a geometry-only run with its rejected fibers taken out
FilteredAffinity == DeleteColumns(DeleteRows(similarities[1], rejIdx), rejIdx)

\* C23: a training run goes through its stages in the one order above (or
\* ends in a failure); the eigenbasis it saves is that of the filtered
\* affinity, eigenvalues ascending and column j with eigenvalue j; a saved
\* 'Weighted' matrix is the filtered affinity; nothing is saved before the
\* filter, and k-means has not run when the eigenbasis is saved.
C23_StagesInOrder ==
    /\ [][(TrainMode /\ pc' # pc) =>
            \/ <<pc, pc'>> \in TrainOrder
            \/ pc' = "failed"]_vars
    /\ [](TrainMode =>
            /\ savedEig # <<>> =>
                  /\ savedEig.of = FilteredAffinity
                  /\ \A i, j \in DOMAIN savedEig.val : i < j => savedEig.val[i] < savedEig.val[j]
                  /\ savedEig.vec = savedEig.val
                  /\ Len(savedEig.val) = Len(W)
            /\ weighted # <<>> => weighted = FilteredAffinity
            /\ pc \in {"trainAffinity", "outlierSim"} => savedEig = <<>> /\ weighted = <<>>
            /\ pc \in {"embed", "eigen"} => savedEig = <<>>
            /\ pc \in {"select", "kmeans"} => savedEig # <<>> /\ kmClusterIdx = <<>>)

\* a training run that rejected a fiber, saved both, and has its labels
C23_Witness ==
    /\ TrainMode
    /\ pc = "sorted"
    /\ rejIdx # <<>>
    /\ savedEig # <<>>
    /\ weighted # <<>>
    /\ clusterIdx # <<>>

----------------------------------------------------------------------------
(* _sortLabel of the earlier revision.                                     *)

AllClustersUsed == \A a \in 0..(k_clusters - 1) : CountOf(kmClusterIdx, a) > 0

\* C24: in the earlier revision, for every labeling that leaves no cluster
\* empty and every order of the cluster sizes, the centroid row returned at a
\* fiber's new label is the input centroid row at its original label.
C24_EarlierCentroidsFollowLabels ==
    (pc = "earlierSorted" /\ AllClustersUsed) =>
        \A t \in DOMAIN clusterIdx :
            centroids[clusterIdx[t] + 1] = kmCentroids[kmClusterIdx[t] + 1]

----------------------------------------------------------------------------
(* The weights of the weighted branch.                                     *)

\* the weighted branch of either builder (668-700, 749-781) was taken and a
\* matrix came back
WeightedReturned ==
    /\ AffinityDone
    /\ outcome = "none"
    /\ scalarTypeList # <<>>
    /\ scalarWeightList # <<>>
    /\ scalarWeightList[1] # WUnit

\* C25: when the weighted branch returns a matrix, there are exactly
\* 1 + (number of scalar types) weights, and the coefficients applied to the
\* geometry similarity and to the channel similarities sum to 1; no weight is
\* left unused.
C25_WeightsAllUsed ==
    WeightedReturned =>
        /\ Len(scalarWeightList) = Len(scalarTypeList) + 1
        /\ SumSeq(SubSeq(scalarWeightList, 1, Len(scalarTypeList) + 1)) = WUnit

\* C26: neither outlier filter empties the working set: for every store of
\* N >= 1 fibers the fibers rejected by the row-sum filter, and those rejected
\* by the centroid-distance filter, are a proper subset of 0..N-1, so that the
\* affinity handed on keeps at least one row (and, in training, one column).
C26_FiltersKeepAFiber ==
    OutlierDone =>
        /\ Range(rejIdx) \subseteq 0..(Len(fiberTree) - 1)
        /\ Len(rejIdx) < Len(fiberTree)
        /\ Len(W) = Len(fiberTree) - Len(rejIdx)
        /\ Len(W) >= 1
        /\ \A i \in DOMAIN W : Len(W[i]) >= 1

\* the centroid-distance filter has rejected a fiber and kept the others
C26_Witness ==
    /\ pc = "filtered"
    /\ rejIdx # <<>>
    /\ Len(W) = Len(fiberTree) - Len(rejIdx)

\* C27: in the extension as in training, the values written to the output for
\* a scalar channel cover the retained fibers only: for each channel the number
\* of values appended is the number of points of the output polydata, from
\* which the rejected fibers were removed.
C27_ScalarsCoverRetainedOnly ==
    pc = "returned" =>
        \A i \in DOMAIN outScalars : Len(outScalars[i]) = outPoints

\* a run has ended with the error of a degenerate clustering (110-111, 226-228)
DegenerateEnded ==
    /\ pc = "failed"
    /\ outcome = "ValueError"
    /\ TooFewClusters(k_clusters)
    /\ printed # <<>>
    /\ printed[Len(printed)] = NotEnoughMsg

\* C28: a run that ends with the error of a degenerate clustering (K <= 1)
\* leaves what can be observed unchanged: no eigenbasis has been saved, k-means
\* or vq has not run, and no cluster information has been attached to the
\* caller's fiber store.
C28_DegenerateLeavesNoTrace ==
    DegenerateEnded =>
        /\ savedEig = <<>>
        /\ kmClusterIdx = <<>>
        /\ clusterInfo = <<>>

====
